---- MODULE Spec2Model ----
(***************************************************************************)
(* Optimistic checklist synchronisation of a note (src/components/note.tsx)*)
(* The local note is owned by the parent component and replaced through    *)
(* onUpdate; every handler closes over the note it was rendered with, so   *)
(* the snapshot of a request is the local note at the time of the call.    *)
(***************************************************************************)
EXTENDS Integers, Sequences, FiniteSets, TLC

\* ---- bounds of the model ------------------------------------------------
MaxInit == 3        \* items of the initial note
MaxOps == 2         \* handler invocations in one behaviour
MaxInFlight == 2    \* requests that may be in flight together

Contents == {"y"}       \* what the user types; initial items hold "x"
Null == "null"
Now == "now"        \* new Date().toISOString()

VARIABLES
  note,       \* the note prop: [defined, checklistItems, archivedAt]
  syncDB,     \* the syncDB prop
  server,     \* the note persisted behind the PUT endpoint
  inflight,   \* requests issued by fetch and not yet settled
  nOps,       \* handler invocations so far (also the clock of Date.now())
  updates,    \* number of onUpdate calls so far
  requests,   \* number of fetch calls so far
  last,       \* the last event: a handler call or a settled request
  done,       \* the settled requests, in the order the client processed them
  confirmed,  \* the notes the server has confirmed to the client
  before,     \* before[k]: the local note just before the k-th handler call
  args,       \* args[k]: the itemId and content the k-th handler call was given
  ui          \* the editing interface: props, component state, focus, refs

vars == <<note, syncDB, server, inflight, nOps, updates, requests, last, done,
          confirmed, before, args, ui>>

\* ---- data ---------------------------------------------------------------
InitId(n) == [kind |-> "init", n |-> n]
TempId(n) == [kind |-> "item", n |-> n]

MkItem(id, content, checked, order) ==
  [id |-> id, content |-> content, checked |-> checked, order |-> order]

MkNote(defined, items, archivedAt) ==
  [defined |-> defined, checklistItems |-> items, archivedAt |-> archivedAt]

Ids(items) == {items[i].id : i \in 1..Len(items)}

\* Array.prototype.find((i) => i.id === id), for an id that is there
ItemWithId(items, id) == CHOOSE x \in {items[i] : i \in 1..Len(items)} : x.id = id

\* Array.prototype.filter
RECURSIVE FilterItems(_, _)
FilterItems(items, itemId) ==
  IF items = <<>> THEN <<>>
  ELSE IF Head(items).id # itemId
       THEN <<Head(items)>> \o FilterItems(Tail(items), itemId)
       ELSE FilterItems(Tail(items), itemId)

\* Array.prototype.every((item) => item.checked); true of the empty array
EveryChecked(items) == \A i \in 1..Len(items) : items[i].checked

\* Array.prototype.sort((a, b) => a.order - b.order): a stable sort
InsertByOrder(sorted, x) ==
  LET k == Cardinality({i \in 1..Len(sorted) : sorted[i].order <= x.order})
  IN SubSeq(sorted, 1, k) \o <<x>> \o SubSeq(sorted, k + 1, Len(sorted))

RECURSIVE SortByOrder(_)
SortByOrder(items) ==
  IF items = <<>> THEN <<>>
  ELSE InsertByOrder(SortByOrder(SubSeq(items, 1, Len(items) - 1)), items[Len(items)])

\* faulty variant: the index of the last checked item
firstCheckedIndex_Last(newItems) ==
  LET S == {i \in 1..Len(newItems) : newItems[i].checked}
  IN IF S = {} THEN -1 ELSE (CHOOSE i \in S : \A j \in S : i >= j) - 1

\* newItems.findIndex((element) => element.checked): zero-based, -1 if none
firstCheckedIndex(newItems) ==
  LET S == {i \in 1..Len(newItems) : newItems[i].checked}
  IN IF S = {} THEN -1 ELSE (CHOOSE i \in S : \A j \in S : i <= j) - 1

\* newItems.map((element) => element.checked).lastIndexOf(false)
lastUncheckedIndex(newItems) ==
  LET S == {i \in 1..Len(newItems) : ~newItems[i].checked}
  IN IF S = {} THEN -1 ELSE (CHOOSE i \in S : \A j \in S : i >= j) - 1

\* faulty variant: the test compares the first unchecked index instead of the last
RejectsReorder_FirstUnchecked(newItems) ==
  LET U == {i \in 1..Len(newItems) : ~newItems[i].checked}
      firstUnchecked == IF U = {} THEN -1 ELSE (CHOOSE i \in U : \A j \in U : i <= j) - 1
  IN /\ firstCheckedIndex(newItems) # -1
     /\ firstUnchecked # -1
     /\ firstUnchecked > firstCheckedIndex(newItems)

\* the early return of handleReorderChecklistItems
RejectsReorder(newItems) ==
  /\ firstCheckedIndex(newItems) # -1
  /\ lastUncheckedIndex(newItems) # -1
  /\ lastUncheckedIndex(newItems) > firstCheckedIndex(newItems)

\* ---- the five handlers as functions of the note they close over ---------
\* Each yields: returned (early return before onUpdate), optimisticNote (the
\* argument of onUpdate) and the body of the PUT request.
Body(items, hasArchivedAt, archivedAt) ==
  [checklistItems |-> items, hasArchivedAt |-> hasArchivedAt, archivedAt |-> archivedAt]

Outcome(returned, optimisticNote, body) ==
  [returned |-> returned, optimisticNote |-> optimisticNote, body |-> body]

EarlyReturn(n) == Outcome(TRUE, n, Body(<<>>, FALSE, Null))

\* faulty variant: the item is checked instead of flipped
ToggleItem_SetsChecked(item, itemId) ==
  IF item.id = itemId THEN [item EXCEPT !.checked = TRUE] ELSE item

\* item.id === itemId ? { ...item, checked: !item.checked } : item
ToggleItem(item, itemId) ==
  IF item.id = itemId THEN [item EXCEPT !.checked = ~item.checked] ELSE item

ToggleItems(items, itemId) ==
  SortByOrder([i \in 1..Len(items) |-> ToggleItem(items[i], itemId)])

ToggleOutcome(n, itemId) ==
  IF ~n.defined THEN EarlyReturn(n)
  ELSE LET sortedItems == ToggleItems(n.checklistItems, itemId)
       IN Outcome(FALSE, [n EXCEPT !.checklistItems = sortedItems],
                  Body(sortedItems, FALSE, Null))

\* faulty variant: the remaining items are renumbered
DeleteOutcome_Renumbers(n, itemId) ==
  IF ~n.defined THEN EarlyReturn(n)
  ELSE LET kept == FilterItems(n.checklistItems, itemId)
           updatedItems == [i \in 1..Len(kept) |-> [kept[i] EXCEPT !.order = i - 1]]
       IN Outcome(FALSE, [n EXCEPT !.checklistItems = updatedItems],
                  Body(updatedItems, FALSE, Null))

DeleteOutcome(n, itemId) ==
  IF ~n.defined THEN EarlyReturn(n)
  ELSE LET updatedItems == FilterItems(n.checklistItems, itemId)
       IN Outcome(FALSE, [n EXCEPT !.checklistItems = updatedItems],
                  Body(updatedItems, FALSE, Null))

\* faulty variant: the edited item loses its check mark
EditItem_Unchecks(item, itemId, content) ==
  IF item.id = itemId THEN [item EXCEPT !.content = content, !.checked = FALSE] ELSE item

\* item.id === itemId ? { ...item, content } : item
EditItem(item, itemId, content) ==
  IF item.id = itemId THEN [item EXCEPT !.content = content] ELSE item

EditItems(items, itemId, content) ==
  [i \in 1..Len(items) |-> EditItem(items[i], itemId, content)]

\* faulty variant: the request carries the items as they were before the edit
EditOutcome_SendsOld(n, itemId, content) ==
  IF ~n.defined THEN EarlyReturn(n)
  ELSE LET updatedItems == EditItems(n.checklistItems, itemId, content)
       IN Outcome(FALSE, [n EXCEPT !.checklistItems = updatedItems],
                  Body(n.checklistItems, FALSE, Null))

EditOutcome(n, itemId, content) ==
  IF ~n.defined THEN EarlyReturn(n)
  ELSE LET updatedItems == EditItems(n.checklistItems, itemId, content)
       IN Outcome(FALSE, [n EXCEPT !.checklistItems = updatedItems],
                  Body(updatedItems, FALSE, Null))

\* faulty variant: the items keep the order values they came with
Renumber_Keep(newItems) == newItems

\* faulty variant: one-based order values
Renumber_OneBased(newItems) == [i \in 1..Len(newItems) |-> [newItems[i] EXCEPT !.order = i]]

\* newItems.map((item, index) => ({ ...item, order: index }))
Renumber(newItems) == [i \in 1..Len(newItems) |-> [newItems[i] EXCEPT !.order = i - 1]]

\* archivedAt: allItemsChecked ? new Date().toISOString() : null
ArchiveFlag(allItemsChecked) == IF allItemsChecked THEN Now ELSE Null

\* faulty variant: the body of the request leaves archivedAt out
ReorderOutcome_NoArchivedAt(n, newItems) ==
  IF ~n.defined \/ RejectsReorder(newItems) THEN EarlyReturn(n)
  ELSE LET updatedItems == Renumber(newItems)
       IN Outcome(FALSE, [n EXCEPT !.checklistItems = updatedItems],
                  Body(updatedItems, FALSE, Null))

ReorderOutcome(n, newItems) ==
  IF ~n.defined \/ RejectsReorder(newItems) THEN EarlyReturn(n)
  ELSE LET updatedItems == Renumber(newItems)
       IN Outcome(FALSE, [n EXCEPT !.checklistItems = updatedItems],
                  Body(updatedItems, TRUE, ArchiveFlag(EveryChecked(newItems))))

\* faulty variant: the order is one more than the number of items
NewItemOrder_Next(n) == IF n.defined THEN Len(n.checklistItems) + 1 ELSE 1

\* order: note.checklistItems?.length ?? 0
NewItemOrder(n) == IF n.defined THEN Len(n.checklistItems) ELSE 0

NewItem(n, clock, content) == MkItem(TempId(clock), content, FALSE, NewItemOrder(n))

\* faulty variant: add sends the archive flag it computed
AddOutcome_SendsArchivedAt(n, clock, content) ==
  LET items == n.checklistItems \o <<NewItem(n, clock, content)>>
  IN Outcome(FALSE,
             MkNote(TRUE, items, ArchiveFlag(EveryChecked(items))),
             Body(items, TRUE, ArchiveFlag(EveryChecked(items))))

\* faulty variant: add keeps the note's archivedAt
AddOutcome_KeepsArchivedAt(n, clock, content) ==
  LET items == n.checklistItems \o <<NewItem(n, clock, content)>>
  IN Outcome(FALSE, MkNote(TRUE, items, n.archivedAt), Body(items, FALSE, Null))

AddOutcome(n, clock, content) ==
  LET items == n.checklistItems \o <<NewItem(n, clock, content)>>
  IN Outcome(FALSE,
             MkNote(TRUE, items, ArchiveFlag(EveryChecked(items))),
             Body(items, FALSE, Null))

\* ---- what the handlers do when the request settles ---------------------
\* faulty variant: a 2xx response is dropped
OnOk_KeepLocal(r, cur) == cur

\* faulty variant: only the items of the response are taken over
OnOk_ItemsOnly(r, cur) == [cur EXCEPT !.checklistItems = r.resp.checklistItems]

\* response.ok: onUpdate(updatedNote), the note of the response body
OnOk(r, cur) == r.resp

\* faulty variant: no rollback on a non-2xx response
OnNotOk_KeepLocal(r, cur) == cur

\* faulty variant: the rollback restores the items and keeps the optimistic archivedAt
OnNotOk_ItemsOnly(r, cur) == [cur EXCEPT !.checklistItems = r.snap.checklistItems]

\* !response.ok: onUpdate(note), the note the handler closed over
OnNotOk(r, cur) == r.snap

\* fetch rejects: toggle's .catch calls onUpdate(note); the catch blocks of
\* delete, edit, reorder and add only log
CatchReverts(op) == op = "toggle"

OnThrow(r, cur) == IF CatchReverts(r.op) THEN r.snap ELSE cur

\* ---- the persistence service behind PUT /boards/{boardId}/notes/{noteId} -
\* It stores the item array of a request it answers 2xx, gives items that
\* carry a client-generated id a server-assigned id, and stores archivedAt
\* only when the body carries it.
ServerId(id) == IF id.kind = "item" THEN [kind |-> "srv", n |-> id.n] ELSE id

Canonical(items) == [i \in 1..Len(items) |-> [items[i] EXCEPT !.id = ServerId(items[i].id)]]

ServerApply(srv, body) ==
  MkNote(TRUE, Canonical(body.checklistItems),
         IF body.hasArchivedAt THEN body.archivedAt ELSE srv.archivedAt)

\* ---- initial states -----------------------------------------------------
\* The note comes from the server: its items are sorted by order, and the
\* order values start at 0 or, when leading items were deleted earlier (delete
\* does not renumber), above 0.
Offsets == {0, 2}

InitialItems(n, checkedAt, off) ==
  [i \in 1..n |-> MkItem(InitId(i), "x", i \in checkedAt, off + i - 1)]

InitialNotes ==
  {MkNote(TRUE, InitialItems(n, c, off), a) :
     n \in 0..MaxInit, c \in SUBSET (1..MaxInit), off \in Offsets, a \in {Null, Now}}
  \cup {MkNote(FALSE, <<>>, Null)}

\* ---- the editing interface ----------------------------------------------
\* no item: the itemId of a call that takes none, and null
NoId == [kind |-> "none", n |-> 0]

Drafts == {"", " ", " y"}    \* the texts a textarea is given by typing

\* String.prototype.trim, on the texts of the model
Trim(s) == CASE s = " " -> "" [] s = " y" -> "y" [] OTHER -> s

\* the elements that take focus
NoElement == [el |-> "none", id |-> NoId]
ItemElement(id) == [el |-> "item", id |-> id]
NewItemElement == [el |-> "new-item", id |-> NoId]
AdditionalElement == [el |-> "new-item-additional", id |-> NoId]
DeleteButton(id) == [el |-> "button", id |-> id]

\* the last event of the interface: its type, the element it was delivered
\* to, the element whose handleBlur ran, and what that component saw
NoUIEvent ==
  [type |-> "none", el |-> NoElement, blurred |-> NoElement, isEditing |-> FALSE,
   editContent |-> "", typed |-> "", suppressed |-> FALSE]

\* const canEdit = !readonly && (currentUser?.id === note.user.id || currentUser?.isAdmin)
canEdit(u) == ~u.readonly /\ u.owner

\* faulty variant: the draft is not trimmed
AdditionalShown_Untrimmed(u) == canEdit(u) /\ u.newItemContent # ""

\* canEdit && ... newItemContent.trim().length > 0 && <ChecklistItemComponent "new-item-additional">
AdditionalShown(u) == canEdit(u) /\ Trim(u.newItemContent) # ""

\* the element is in the document
Mounted(u, n, e) ==
  CASE e.el = "item" -> e.id \in Ids(n.checklistItems) /\ ~u.readonly
    [] e.el = "new-item" -> canEdit(u)
    [] e.el = "new-item-additional" -> AdditionalShown(u)
    [] e.el = "button" -> e.id \in Ids(n.checklistItems) /\ canEdit(u) /\ ~u.readonly
    [] OTHER -> TRUE

\* the render that follows a state change: a component whose item has left
\* the note is unmounted with its ref and its focus; the additional input is
\* mounted as the new-item draft tells
Render(u, n) ==
  [u EXCEPT !.focus = IF Mounted(u, n, @) THEN @ ELSE NoElement,
            !.deleting = @ \cap Ids(n.checklistItems),
            !.pressed = IF @ \in Ids(n.checklistItems) THEN @ ELSE NoId,
            !.additional = AdditionalShown(u),
            !.typed = IF AdditionalShown(u) THEN @ ELSE ""]

\* the interface after mounting
UIState(readonly, owner, newItemContent) ==
  Render([readonly |-> readonly, owner |-> owner, editingItem |-> NoId,
          editingItemContent |-> "", newItemContent |-> newItemContent,
          focus |-> NoElement, deleting |-> {}, pressed |-> NoId,
          additional |-> FALSE, typed |-> "", ev |-> NoUIEvent],
         MkNote(TRUE, <<>>, Null))

\* the render after a step that is not an event of the interface
Rerender(n) == Render([ui EXCEPT !.ev = NoUIEvent], n)

NoEvent(n) ==
  [ev |-> "init", op |-> "none", rid |-> 0, snap |-> n, newItems |-> <<>>,
   resp |-> n, overlapped |-> FALSE]

Init ==
  /\ note \in InitialNotes
  /\ syncDB \in BOOLEAN
  /\ server = MkNote(TRUE, note.checklistItems, note.archivedAt)
  /\ inflight = {}
  /\ nOps = 0
  /\ updates = 0
  /\ requests = 0
  /\ last = NoEvent(note)
  /\ done = <<>>
  /\ confirmed = {note}
  /\ before = <<>>
  /\ args = <<>>
  /\ ui = UIState(FALSE, TRUE, "")

\* ---- a handler call -----------------------------------------------------
Request(rid, op, snap, body, overlapped) ==
  [rid |-> rid, op |-> op, snap |-> snap, body |-> body, stage |-> "sent",
   resp |-> snap, overlapped |-> overlapped]

Overlap(reqs) == {[r EXCEPT !.overlapped = TRUE] : r \in reqs}

\* faulty variant: the request is sent whatever syncDB is
Invoke_AlwaysSends(op, out, newItems) ==
  /\ nOps < MaxOps
  /\ ~out.returned => Cardinality(inflight) < MaxInFlight
  /\ nOps' = nOps + 1
  /\ IF out.returned
     THEN UNCHANGED <<note, updates, requests, inflight>>
     ELSE /\ note' = out.optimisticNote
          /\ updates' = updates + 1
          /\ requests' = requests + 1
          /\ inflight' = Overlap(inflight) \cup
               {Request(nOps + 1, op, note, out.body, inflight # {})}
  /\ last' = [ev |-> IF out.returned THEN "returned" ELSE "call", op |-> op,
              rid |-> nOps + 1, snap |-> note, newItems |-> newItems,
              resp |-> note, overlapped |-> inflight # {}]
  /\ before' = Append(before, note)
  /\ UNCHANGED <<syncDB, server, done, confirmed>>

Invoke(op, out, newItems) ==
  /\ nOps < MaxOps
  /\ (~out.returned /\ syncDB) => Cardinality(inflight) < MaxInFlight
  /\ nOps' = nOps + 1
  /\ IF out.returned
     THEN UNCHANGED <<note, updates, requests, inflight>>
     ELSE /\ note' = out.optimisticNote
          /\ updates' = updates + 1
          /\ IF syncDB
             THEN /\ requests' = requests + 1
                  /\ inflight' = Overlap(inflight) \cup
                       {Request(nOps + 1, op, note, out.body, inflight # {})}
             ELSE UNCHANGED <<requests, inflight>>
  /\ last' = [ev |-> IF out.returned THEN "returned" ELSE "call", op |-> op,
              rid |-> nOps + 1, snap |-> note, newItems |-> newItems,
              resp |-> note, overlapped |-> inflight # {}]
  /\ before' = Append(before, note)
  /\ UNCHANGED <<syncDB, server, done, confirmed>>

\* the ids a handler is called with: those of the rendered items
ItemIdInputs == Ids(note.checklistItems)


\* the arguments of a call, recorded
Args(itemId, content) == [itemId |-> itemId, content |-> content]

handleToggleChecklistItem ==
  \E itemId \in ItemIdInputs :
    /\ Invoke("toggle", ToggleOutcome(note, itemId), <<>>)
    /\ args' = Append(args, Args(itemId, ""))
    /\ ui' = Rerender(note')

handleDeleteChecklistItem ==
  \E itemId \in ItemIdInputs :
    /\ Invoke("delete", DeleteOutcome(note, itemId), <<>>)
    /\ args' = Append(args, Args(itemId, ""))
    /\ ui' = Rerender(note')

handleEditChecklistItem ==
  \E itemId \in ItemIdInputs, content \in Contents :
    /\ Invoke("edit", EditOutcome(note, itemId, content), <<>>)
    /\ args' = Append(args, Args(itemId, content))
    /\ ui' = Rerender(note')

\* a drag moves the item at position i to position j
Move(items, i, j) ==
  LET rest == SubSeq(items, 1, i - 1) \o SubSeq(items, i + 1, Len(items))
  IN SubSeq(rest, 1, j - 1) \o <<items[i]>> \o SubSeq(rest, j, Len(rest))

ReorderInputs ==
  {note.checklistItems} \cup
  {Move(note.checklistItems, i, j) : i, j \in 1..Len(note.checklistItems)}

handleReorderChecklistItems ==
  \E newItems \in ReorderInputs :
    /\ Invoke("reorder", ReorderOutcome(note, newItems), newItems)
    /\ args' = Append(args, Args(NoId, ""))
    /\ ui' = Rerender(note')

handleAddChecklistItem ==
  \E content \in Contents, clock \in {nOps + 1} :
    /\ Invoke("add", AddOutcome(note, clock, content), <<>>)
    /\ args' = Append(args, Args(TempId(clock), content))
    /\ ui' = Rerender(note')

\* ---- the request settles ------------------------------------------------
ServerRespond ==
  \E r \in inflight, ok \in BOOLEAN :
    /\ r.stage = "sent"
    /\ server' = IF ok THEN ServerApply(server, r.body) ELSE server
    /\ inflight' = (inflight \ {r}) \cup
         {[r EXCEPT !.stage = IF ok THEN "ok" ELSE "notok", !.resp = server']}
    /\ ui' = Rerender(note)
    /\ UNCHANGED <<note, syncDB, nOps, updates, requests, last, done, confirmed, before, args>>

Settled(r, ev) ==
  [ev |-> ev, op |-> r.op, rid |-> r.rid, snap |-> r.snap, newItems |-> <<>>,
   resp |-> r.resp, overlapped |-> r.overlapped]

ReceiveOk ==
  \E r \in inflight :
    /\ r.stage = "ok"
    /\ note' = OnOk(r, note)
    /\ updates' = updates + 1
    /\ inflight' = inflight \ {r}
    /\ last' = Settled(r, "ok")
    /\ done' = Append(done, [rid |-> r.rid, ev |-> "ok"])
    /\ confirmed' = confirmed \cup {r.resp}
    /\ ui' = Rerender(note')
    /\ UNCHANGED <<syncDB, server, nOps, requests, before, args>>

\* faulty variant: a rejected request is sent once more
ReceiveNotOk_Retry ==
  \E r \in inflight :
    /\ r.stage = "notok"
    /\ \A i \in 1..Len(done) : done[i].rid # r.rid
    /\ note' = OnNotOk(r, note)
    /\ updates' = updates + 1
    /\ requests' = requests + 1
    /\ inflight' = (inflight \ {r}) \cup {[r EXCEPT !.stage = "sent"]}
    /\ last' = Settled(r, "notok")
    /\ done' = Append(done, [rid |-> r.rid, ev |-> "notok"])
    /\ ui' = Rerender(note')
    /\ UNCHANGED <<syncDB, server, nOps, confirmed, before, args>>

\* faulty variant: a rejected request cancels the others in flight
ReceiveNotOk_Cancels ==
  \E r \in inflight :
    /\ r.stage = "notok"
    /\ note' = OnNotOk(r, note)
    /\ updates' = updates + 1
    /\ inflight' = {}
    /\ last' = Settled(r, "notok")
    /\ done' = Append(done, [rid |-> r.rid, ev |-> "notok"])
    /\ ui' = Rerender(note')
    /\ UNCHANGED <<syncDB, server, nOps, requests, confirmed, before, args>>

ReceiveNotOk ==
  \E r \in inflight :
    /\ r.stage = "notok"
    /\ note' = OnNotOk(r, note)
    /\ updates' = updates + 1
    /\ inflight' = inflight \ {r}
    /\ last' = Settled(r, "notok")
    /\ done' = Append(done, [rid |-> r.rid, ev |-> "notok"])
    /\ ui' = Rerender(note')
    /\ UNCHANGED <<syncDB, server, nOps, requests, confirmed, before, args>>

\* the request or its response is lost: fetch rejects
NetworkFailure ==
  \E r \in inflight :
    /\ note' = OnThrow(r, note)
    /\ updates' = updates + (IF CatchReverts(r.op) THEN 1 ELSE 0)
    /\ inflight' = inflight \ {r}
    /\ last' = Settled(r, "thrown")
    /\ done' = Append(done, [rid |-> r.rid, ev |-> "thrown"])
    /\ ui' = Rerender(note')
    /\ UNCHANGED <<syncDB, server, nOps, requests, confirmed, before, args>>

\* ---- note.tsx: the callbacks handed to the item components ---------------
\* a handler call an event asks for, or none
NoCall == [op |-> "none", itemId |-> NoId, content |-> ""]
Call(op, itemId, content) == [op |-> op, itemId |-> itemId, content |-> content]

\* what an event does: the handler call and the component state it sets
Effect(call, u) == [call |-> call, ui |-> u]

\* faulty variant: the draft starts empty
handleStartEditItem_EmptyDraft(u, n, itemId) ==
  IF itemId \in Ids(n.checklistItems) /\ canEdit(u)
  THEN [u EXCEPT !.editingItem = itemId, !.editingItemContent = ""]
  ELSE u

handleStartEditItem(u, n, itemId) ==
  IF itemId \in Ids(n.checklistItems) /\ canEdit(u)
  THEN [u EXCEPT !.editingItem = itemId,
                 !.editingItemContent = ItemWithId(n.checklistItems, itemId).content]
  ELSE u

\* faulty variant: the draft is cleared and the item stays in Editing
handleStopEditItem_KeepsItem(u) == [u EXCEPT !.editingItemContent = ""]

handleStopEditItem(u) == [u EXCEPT !.editingItem = NoId, !.editingItemContent = ""]

handleEditItem(u, itemId, content) ==
  Effect(Call("edit", itemId, content), handleStopEditItem(u))

\* faulty variant: the draft is committed before the item is deleted
handleDeleteItem_Edits(u, itemId) ==
  Effect(Call("edit", itemId, u.editingItemContent), handleStopEditItem(u))

handleDeleteItem(u, itemId) ==
  Effect(Call("delete", itemId, ""), handleStopEditItem(u))

\* faulty variant: the draft is not cleared
handleCreateNewItem_KeepsDraft(u, content) ==
  IF Trim(content) # "" THEN Effect(Call("add", NoId, Trim(content)), u) ELSE Effect(NoCall, u)

\* faulty variant: the committed text is left in the draft
handleCreateNewItem_RestoresDraft(u, content) ==
  IF Trim(content) # ""
  THEN Effect(Call("add", NoId, Trim(content)), [u EXCEPT !.newItemContent = Trim(content)])
  ELSE Effect(NoCall, u)

handleCreateNewItem(u, content) ==
  IF Trim(content) # ""
  THEN Effect(Call("add", NoId, Trim(content)), [u EXCEPT !.newItemContent = ""])
  ELSE Effect(NoCall, u)

\* the props of the component of element e
isNewItem(e) == e.el \in {"new-item", "new-item-additional"}

isEditing(u, e) == IF e.el = "item" THEN u.editingItem = e.id ELSE TRUE

\* editContent is undefined for an item that is not being edited
HasEditContent(u, e) == isEditing(u, e)

editContent(u, e) ==
  CASE e.el = "item" -> IF u.editingItem = e.id THEN u.editingItemContent ELSE ""
    [] e.el = "new-item" -> u.newItemContent
    [] OTHER -> ""

\* value={editContent ?? item.content}
Value(u, n, e) ==
  IF e.el = "item" /\ ~HasEditContent(u, e)
  THEN ItemWithId(n.checklistItems, e.id).content
  ELSE editContent(u, e)

onEditContentChange(u, e, value) ==
  CASE e.el = "item" -> [u EXCEPT !.editingItemContent = value]
    [] e.el = "new-item" -> [u EXCEPT !.newItemContent = value]
    [] OTHER -> [u EXCEPT !.typed = value]

\* onStopEdit of the render u0, applied to the state u the event has reached
onStopEdit(u0, u, e) ==
  CASE e.el = "item" -> handleStopEditItem(u)
    [] e.el = "new-item" ->
         IF Trim(u0.newItemContent) = "" THEN [u EXCEPT !.newItemContent = ""] ELSE u
    [] OTHER -> u

onEdit(u, e, content) ==
  IF e.el = "item" THEN handleEditItem(u, e.id, content) ELSE Effect(NoCall, u)

onDelete(u, e) ==
  CASE e.el \in {"item", "button"} -> handleDeleteItem(u, e.id)
    [] e.el = "new-item" -> Effect(NoCall, [u EXCEPT !.newItemContent = ""])
    [] OTHER -> Effect(NoCall, u)

onCreateItem(u, e, content) ==
  IF e.el = "new-item" THEN handleCreateNewItem(u, content)
  ELSE IF Trim(content) # "" THEN Effect(Call("add", NoId, Trim(content)), u)
  ELSE Effect(NoCall, u)

\* ---- checklist-item.tsx: the handlers of the textarea --------------------
\* faulty variant: the flag of the delete button is not looked at
handleBlur_NoFlag(u, e) ==
  LET eff == IF isNewItem(e) /\ Trim(editContent(u, e)) # ""
             THEN onCreateItem(u, e, Trim(editContent(u, e)))
             ELSE IF isEditing(u, e) /\ HasEditContent(u, e)
             THEN onEdit(u, e, editContent(u, e))
             ELSE Effect(NoCall, u)
  IN Effect(eff.call, onStopEdit(u, eff.ui, e))

handleBlur(u, e) ==
  IF e.el = "item" /\ e.id \in u.deleting
  THEN Effect(NoCall, [u EXCEPT !.deleting = @ \ {e.id}])
  ELSE LET eff == IF isNewItem(e) /\ Trim(editContent(u, e)) # ""
                  THEN onCreateItem(u, e, Trim(editContent(u, e)))
                  ELSE IF isEditing(u, e) /\ HasEditContent(u, e)
                  THEN onEdit(u, e, editContent(u, e))
                  ELSE Effect(NoCall, u)
       IN Effect(eff.call, onStopEdit(u, eff.ui, e))

\* the element loses the focus and its handleBlur runs
BlurOf(u, e) ==
  LET eff == handleBlur(u, e)
  IN Effect(eff.call, [eff.ui EXCEPT !.focus = NoElement])

\* e.key === "Backspace" && editContent?.trim() === ""
BackspaceDeletes(u, e) == HasEditContent(u, e) /\ Trim(editContent(u, e)) = ""

handleKeyDown(u, e, key) ==
  CASE key = "Enter" ->
         IF isNewItem(e) /\ Trim(editContent(u, e)) # ""
         THEN onCreateItem(u, e, Trim(editContent(u, e)))
         ELSE BlurOf(u, e)
    [] key = "Escape" -> Effect(NoCall, onStopEdit(u, u, e))
    [] key = "Backspace" ->
         IF BackspaceDeletes(u, e) THEN onDelete(u, e) ELSE Effect(NoCall, u)
    [] OTHER -> Effect(NoCall, u)

\* onFocus: if (!isEditing && !readonly) onStartEdit?.(item.id)
onFocus(u, n, e) ==
  LET started == IF e.el = "item" /\ ~isEditing(u, e) /\ ~u.readonly
                 THEN handleStartEditItem(u, n, e.id) ELSE u
  IN [started EXCEPT !.focus = e]

\* ---- the events of the interface ----------------------------------------
IsTextarea(e) == e.el \in {"item", "new-item", "new-item-additional"}

\* the record of an event of type type delivered to target, whose handler
\* ran in the component of the textarea e (blurred: handleBlur ran)
UIEvent(type, target, e, blurred, u) ==
  [type |-> type, el |-> target, blurred |-> IF blurred THEN e ELSE NoElement,
   isEditing |-> IsTextarea(e) /\ isEditing(u, e),
   editContent |-> IF IsTextarea(e) THEN editContent(u, e) ELSE "",
   typed |-> u.typed,
   suppressed |-> blurred /\ e.el = "item" /\ e.id \in u.deleting]

MaxEditOps == 1     \* edits and deletes asked for through the interface

\* the handler call of an event, then the render
Perform(eff, ev) ==
  /\ eff.call.op \in {"edit", "delete"} => nOps < MaxEditOps
  /\ IF eff.call.op = "edit"
     THEN /\ Invoke("edit", EditOutcome(note, eff.call.itemId, eff.call.content), <<>>)
          /\ args' = Append(args, Args(eff.call.itemId, eff.call.content))
     ELSE IF eff.call.op = "delete"
     THEN /\ Invoke("delete", DeleteOutcome(note, eff.call.itemId), <<>>)
          /\ args' = Append(args, Args(eff.call.itemId, ""))
     ELSE IF eff.call.op = "toggle"
     THEN /\ Invoke("toggle", ToggleOutcome(note, eff.call.itemId), <<>>)
          /\ args' = Append(args, Args(eff.call.itemId, ""))
     ELSE IF eff.call.op = "add"
     THEN /\ Invoke("add", AddOutcome(note, nOps + 1, eff.call.content), <<>>)
          /\ args' = Append(args, Args(TempId(nOps + 1), eff.call.content))
     ELSE UNCHANGED <<note, syncDB, server, inflight, nOps, updates, requests,
                      last, done, confirmed, before, args>>
  /\ ui' = Render([eff.ui EXCEPT !.ev = ev], note')

\* the user clicks or tabs into the textarea e
Focus(e) ==
  /\ ui.focus.el \in {"none", "button"}
  /\ Mounted(ui, note, e)
  /\ Perform(Effect(NoCall, onFocus(ui, note, e)), UIEvent("focus", e, e, FALSE, ui))

FocusItem == \E id \in Ids(note.checklistItems) : Focus(ItemElement(id))

FocusNewItem ==
  \E e \in {x \in {NewItemElement, AdditionalElement} : Mounted(ui, note, x)} : Focus(e)

TypeText ==
  \E value \in Drafts :
    /\ IsTextarea(ui.focus)
    /\ value # Value(ui, note, ui.focus)
    /\ Perform(Effect(NoCall, onEditContentChange(ui, ui.focus, value)),
               UIEvent("type", ui.focus, ui.focus, FALSE, ui))

KeyEnter ==
  /\ IsTextarea(ui.focus)
  /\ Perform(handleKeyDown(ui, ui.focus, "Enter"),
             UIEvent("enter", ui.focus, ui.focus,
                     ~(isNewItem(ui.focus) /\ Trim(editContent(ui, ui.focus)) # ""), ui))

KeyEscape ==
  /\ IsTextarea(ui.focus)
  /\ Perform(handleKeyDown(ui, ui.focus, "Escape"),
             UIEvent("escape", ui.focus, ui.focus, FALSE, ui))

\* Backspace on a draft that is not blank removes a character: TypeText
KeyBackspace ==
  /\ IsTextarea(ui.focus)
  /\ BackspaceDeletes(ui, ui.focus)
  /\ Perform(handleKeyDown(ui, ui.focus, "Backspace"),
             UIEvent("backspace", ui.focus, ui.focus, FALSE, ui))

Blur ==
  /\ IsTextarea(ui.focus)
  /\ Perform(BlurOf(ui, ui.focus), UIEvent("blur", ui.focus, ui.focus, TRUE, ui))

\* onMouseDown of the delete button sets deletingRef; the button takes the
\* focus, so the textarea that had it gets its blur
MouseDownDelete ==
  \E id \in Ids(note.checklistItems) :
    /\ Mounted(ui, note, DeleteButton(id))
    /\ ui.pressed = NoId
    /\ LET u1 == [ui EXCEPT !.deleting = @ \cup {id}, !.pressed = id]
           eff == IF IsTextarea(ui.focus) THEN BlurOf(u1, ui.focus) ELSE Effect(NoCall, u1)
       IN Perform(Effect(eff.call, [eff.ui EXCEPT !.focus = DeleteButton(id)]),
                  UIEvent("mousedown", DeleteButton(id), ui.focus, IsTextarea(ui.focus), u1))

\* the mouse is released on the button: onClick
ClickDelete ==
  /\ ui.pressed # NoId
  /\ Perform(onDelete([ui EXCEPT !.pressed = NoId], DeleteButton(ui.pressed)),
             UIEvent("click", DeleteButton(ui.pressed), NoElement, FALSE, ui))

\* the mouse is released somewhere else: no click
MouseUpElsewhere ==
  /\ ui.pressed # NoId
  /\ Perform(Effect(NoCall, [ui EXCEPT !.pressed = NoId]),
             UIEvent("mouseup", NoElement, NoElement, FALSE, ui))

\* onCheckedChange={() => !readonly && onToggle?.(item.id)}
ToggleCheckbox ==
  \E id \in Ids(note.checklistItems) :
    /\ ~IsTextarea(ui.focus)
    /\ ~ui.readonly
    /\ Perform(Effect(Call("toggle", id, ""), [ui EXCEPT !.focus = NoElement]),
               UIEvent("toggle", ItemElement(id), NoElement, FALSE, ui))

\* onItemsChange={(newItems) => { if (canEdit) handleReorderChecklistItems(note.id, newItems) }}
Drag ==
  \E newItems \in ReorderInputs :
    /\ ~IsTextarea(ui.focus)
    /\ canEdit(ui)
    /\ note.checklistItems # <<>>
    /\ Invoke("reorder", ReorderOutcome(note, newItems), newItems)
    /\ args' = Append(args, Args(NoId, ""))
    /\ ui' = Render([ui EXCEPT !.focus = NoElement,
                               !.ev = UIEvent("drag", NoElement, NoElement, FALSE, ui)], note')

Next ==
  \/ handleToggleChecklistItem
  \/ handleDeleteChecklistItem
  \/ handleEditChecklistItem
  \/ handleReorderChecklistItems
  \/ handleAddChecklistItem
  \/ ServerRespond
  \/ ReceiveOk
  \/ ReceiveNotOk
  \/ NetworkFailure

Spec == Init /\ [][Next]_vars

\* ---- the reorder validator on every sequence of flags --------------------
MaxFlags == 5       \* longest sequence of checked flags tried

InitReorder ==
  /\ note \in {MkNote(TRUE, InitialItems(n, c, off), Null) :
                 n \in 0..MaxFlags, c \in SUBSET (1..MaxFlags), off \in Offsets}
  /\ syncDB = TRUE
  /\ server = note
  /\ inflight = {}
  /\ nOps = 0
  /\ updates = 0
  /\ requests = 0
  /\ last = NoEvent(note)
  /\ done = <<>>
  /\ confirmed = {note}
  /\ before = <<>>
  /\ args = <<>>
  /\ ui = UIState(FALSE, TRUE, "")

NextReorder == handleReorderChecklistItems

SpecReorder == InitReorder /\ [][NextReorder]_vars

\* ---- the note driven through its interface ------------------------------
MaxInitUI == 2      \* items of the initial note

InitialNotesUI ==
  {MkNote(TRUE, InitialItems(n, c, 0), IF n > 0 /\ c = 1..n THEN Now ELSE Null) :
     n \in 0..MaxInitUI, c \in SUBSET (1..MaxInitUI)}

InitUI(notes, props, texts) ==
  /\ note \in notes
  /\ syncDB \in BOOLEAN
  /\ server = note
  /\ inflight = {}
  /\ nOps = 0
  /\ updates = 0
  /\ requests = 0
  /\ last = NoEvent(note)
  /\ done = <<>>
  /\ confirmed = {note}
  /\ before = <<>>
  /\ args = <<>>
  /\ \E readonly, owner \in props, textonStart \in texts :
       ui = UIState(readonly, owner, IF ~readonly /\ owner THEN textonStart ELSE "")

\* editing sessions on the items of the note
InitEdit == InitUI(InitialNotesUI, BOOLEAN, {""})

NextEdit ==
  \/ FocusItem
  \/ TypeText
  \/ KeyEnter
  \/ KeyEscape
  \/ KeyBackspace
  \/ Blur
  \/ MouseDownDelete
  \/ ClickDelete
  \/ MouseUpElsewhere
  \/ ServerRespond
  \/ ReceiveOk
  \/ ReceiveNotOk
  \/ NetworkFailure

SpecEdit == InitEdit /\ [][NextEdit]_vars

\* the two new-item inputs
InitNewItem == InitUI(InitialNotesUI, BOOLEAN, {"", " y"})

NextNewItem ==
  \/ FocusNewItem
  \/ TypeText
  \/ KeyEnter
  \/ KeyEscape
  \/ KeyBackspace
  \/ Blur
  \/ ServerRespond
  \/ ReceiveOk
  \/ ReceiveNotOk
  \/ NetworkFailure

SpecNewItem == InitNewItem /\ [][NextNewItem]_vars

\* ---- the whole interface of a small note ---------------------------------
MaxInitSmall == 1   \* items of the initial note

InitialNotesSmall ==
  {MkNote(TRUE, InitialItems(n, c, 0), IF n > 0 /\ c = 1..n THEN Now ELSE Null) :
     n \in 0..MaxInitSmall, c \in SUBSET (1..MaxInitSmall)}

\* every user and every prop; the user who can edit is followed with
\* syncDB off, the user who cannot with syncDB on and off
InitViewer ==
  /\ InitUI(InitialNotesSmall, BOOLEAN, {""})
  /\ canEdit(ui) => ~syncDB

NextViewer ==
  \/ FocusItem
  \/ FocusNewItem
  \/ TypeText
  \/ KeyEnter
  \/ KeyEscape
  \/ KeyBackspace
  \/ Blur
  \/ MouseDownDelete
  \/ ClickDelete
  \/ MouseUpElsewhere
  \/ ToggleCheckbox
  \/ Drag
  \/ ServerRespond
  \/ ReceiveOk
  \/ ReceiveNotOk
  \/ NetworkFailure

SpecViewer == InitViewer /\ [][NextViewer]_vars

\* the textareas of the items and of the new item, with the server
InitPointer == InitUI(InitialNotesSmall, BOOLEAN, {" y"})

NextPointer ==
  \/ FocusItem
  \/ FocusNewItem
  \/ TypeText
  \/ KeyEnter
  \/ KeyEscape
  \/ KeyBackspace
  \/ Blur
  \/ ServerRespond
  \/ ReceiveOk
  \/ ReceiveNotOk
  \/ NetworkFailure

SpecPointer == InitPointer /\ [][NextPointer]_vars

\* ---- properties ---------------------------------------------------------
\* the request issued by the last handler call, if it issued one
LastRequests == {r \in inflight : r.rid = last.rid}

\* some unchecked item stands at a later position than some checked item
UncheckedAfterChecked(items) ==
  \E i, j \in 1..Len(items) : i < j /\ items[i].checked /\ ~items[j].checked

\* C1: a reorder whose newItems has an unchecked item after a checked one
\* calls onUpdate zero times, issues no request and leaves the note as it was.
C1_RejectedReorderHasNoEffect ==
  [][(nOps' = nOps + 1 /\ last'.op = "reorder" /\ UncheckedAfterChecked(last'.newItems))
       => (note' = note /\ updates' = updates /\ requests' = requests
           /\ inflight' = inflight)]_vars

C1_Witness ==
  /\ last.ev = "returned" /\ last.op = "reorder"
  /\ Len(last.newItems) = 3
  /\ ~last.newItems[1].checked /\ last.newItems[2].checked /\ ~last.newItems[3].checked
  /\ note = before[last.rid] /\ requests = 0 /\ syncDB

\* C2: after a non-2xx response of any of the five operations is processed,
\* the local note is the note as it was just before that operation was called.
C2_Non2xxRestoresPreCallNote ==
  last.ev = "notok" => note = before[last.rid]

\* an add on an archived note: the optimistic note cleared archivedAt and got
\* a new item, the rollback brings both back
C2_Witness ==
  /\ last.ev = "notok" /\ last.op = "add"
  /\ before[last.rid].archivedAt = Now
  /\ note = before[last.rid]
  /\ Len(done) = 2

\* C3: after a network-level failure of any of the five operations, the local
\* note is the note as it was just before that operation was called.
C3_ThrowRestoresPreCallNote ==
  last.ev = "thrown" => note = before[last.rid]

\* C4: the response of a request that overlapped with another one, processed
\* when no other request is left in flight, alone decides the local note: the
\* response's note if 2xx, the operation's own pre-call note if not.
C4_LastResponseWins ==
  (last.ev \in {"ok", "notok"} /\ last.overlapped /\ inflight = {})
    => note = IF last.ev = "ok" THEN last.resp ELSE before[last.rid]

\* B's 2xx response came first, then A's 2xx response: the local note is A's
\* response and no longer what the server holds
C4_Witness ==
  /\ Len(done) = 2 /\ done[1].ev = "ok" /\ done[2].ev = "ok"
  /\ last.ev = "ok" /\ last.overlapped /\ inflight = {}
  /\ note = last.resp
  /\ note.checklistItems # server.checklistItems

\* C5: whenever no request is in flight, the local checklist is the checklist
\* the server holds.
C5_LocalEqualsServerWhenIdle ==
  (syncDB /\ inflight = {}) => note.checklistItems = server.checklistItems

NoThrow == \A i \in 1..Len(done) : done[i].ev # "thrown"

\* C6 as claimed: after a non-2xx response the local note is a note the
\* server has confirmed (already in runs where no request fails at network
\* level).
C6_Non2xxRestoresConfirmedNote ==
  (last.ev = "notok" /\ NoThrow) => note \in confirmed

\* C6 as amended: after a non-2xx response the local note is a confirmed note
\* exactly when the note the operation was called on is one.
C6_Non2xxConfirmedIffPreCallNoteWas ==
  last.ev = "notok" => (note \in confirmed <=> before[last.rid] \in confirmed)

\* a delete is rejected after another operation got its 2xx response: the
\* local note goes back to a confirmed note that holds the item again
C6_Witness ==
  /\ last.ev = "notok" /\ last.op = "delete"
  /\ Len(done) = 2 /\ done[1].ev = "ok"
  /\ before[last.rid] \in confirmed /\ note \in confirmed
  /\ Len(note.checklistItems) = Len(last.snap.checklistItems)
  /\ Len(note.checklistItems) > 0

\* the auto-archive rule: archived iff there is an item and all are checked
ArchiveRule(n) ==
  n.archivedAt # Null <=> (Len(n.checklistItems) >= 1 /\ EveryChecked(n.checklistItems))

\* C7: the optimistic note of every operation obeys the auto-archive rule
\* (already when the note the operation was called on obeyed it).
C7_OptimisticNoteObeysArchiveRule ==
  (last.ev = "call" /\ ArchiveRule(before[last.rid])) => ArchiveRule(note)

\* order values are 0..n-1 and every item's order is its position
Dense(items) == \A i \in 1..Len(items) : items[i].order = i - 1

\* P holds of the optimistic note and of the body of the request just issued
OptimisticAndBody(P(_)) ==
  /\ P(note.checklistItems)
  /\ \A r \in LastRequests : P(r.body.checklistItems)

\* C8 as claimed: after any operation the order values are dense, in the
\* optimistic note and in the request body (already when they were dense
\* before the call).
C8_OrdersDenseAfterAnyOperation ==
  (last.ev = "call" /\ Dense(before[last.rid].checklistItems))
    => OptimisticAndBody(Dense)

IsPrefix(s, t) == Len(s) <= Len(t) /\ s = SubSeq(t, 1, Len(s))

\* C8 as amended: an accepted reorder always yields dense order values;
\* toggle, edit and add keep them dense when they were dense before the call;
\* delete does not renumber, so it keeps them dense only when the item it
\* removes is the last one.
C8_OrdersDenseExceptAfterDelete ==
  last.ev = "call" =>
    LET pre == before[last.rid].checklistItems
    IN /\ last.op = "reorder" => OptimisticAndBody(Dense)
       /\ (last.op \in {"toggle", "edit", "add"} /\ Dense(pre)) => OptimisticAndBody(Dense)
       /\ (last.op = "delete" /\ Dense(pre)) =>
            OptimisticAndBody(LAMBDA items : Dense(items) <=> IsPrefix(items, pre))

\* a reorder that moved an item of a note with gaps, and was sent
C8_Witness ==
  /\ last.ev = "call" /\ last.op = "reorder"
  /\ ~Dense(before[last.rid].checklistItems)
  /\ Ids(note.checklistItems) = Ids(before[last.rid].checklistItems)
  /\ \E i \in 1..Len(note.checklistItems) :
       note.checklistItems[i].id # before[last.rid].checklistItems[i].id
  /\ LastRequests # {}
  /\ OptimisticAndBody(Dense)

Ascending(items) == \A i, j \in 1..Len(items) : i < j => items[i].order <= items[j].order

\* C9: the items of the local note and of every request body are in ascending
\* order of their order field.
C9_ItemsAscendingByOrder ==
  /\ Ascending(note.checklistItems)
  /\ \A r \in inflight : Ascending(r.body.checklistItems)

\* the sequence is all unchecked items followed by all checked items
UncheckedThenChecked(items) ==
  \E k \in 0..Len(items) :
    /\ \A i \in 1..k : ~items[i].checked
    /\ \A i \in (k + 1)..Len(items) : items[i].checked

\* C10: reorder returns early exactly on the sequences that are not all
\* unchecked items followed by all checked items; in particular all-checked,
\* all-unchecked and empty sequences are accepted.
C10_RejectsExactlyUnpartitioned ==
  last.op = "reorder" =>
    /\ last.ev = "returned" <=> ~UncheckedThenChecked(last.newItems)
    /\ (EveryChecked(last.newItems) \/ \A i \in 1..Len(last.newItems) : ~last.newItems[i].checked)
         => last.ev = "call"

\* an accepted mixed sequence after a rejected one
C10_Witness ==
  /\ nOps = 2 /\ last.op = "reorder" /\ last.ev = "call"
  /\ Len(last.newItems) >= 4
  /\ ~last.newItems[1].checked /\ last.newItems[Len(last.newItems)].checked
  /\ before[2] = before[1] /\ requests = 1
  /\ UncheckedAfterChecked(before[1].checklistItems)

\* ---- the single operations -----------------------------------------------
\* the note and the arguments the last handler call was given
Pre == before[last.rid]
PreItems == before[last.rid].checklistItems
Arg == args[last.rid]

Called(op) == last.ev = "call" /\ last.op = op

\* items is newItems with order = position - 1 and nothing else changed
SubmittedSequence(items, newItems) ==
  /\ Len(items) = Len(newItems)
  /\ \A i \in 1..Len(items) :
       /\ items[i].order = i - 1
       /\ items[i].id = newItems[i].id
       /\ items[i].content = newItems[i].content
       /\ items[i].checked = newItems[i].checked

\* C11: after an accepted reorder the optimistic note and the request body
\* hold the items in the submitted sequence, the item at position i with
\* order i (zero-based) and with its id, content and checked as submitted.
C11_ReorderKeepsSubmittedSequence ==
  Called("reorder") =>
    /\ SubmittedSequence(note.checklistItems, last.newItems)
    /\ \A r \in LastRequests : SubmittedSequence(r.body.checklistItems, last.newItems)

\* the first item of three was dragged to the end, and the request was sent
C11_Witness ==
  /\ Called("reorder") /\ LastRequests # {}
  /\ Len(PreItems) = 3
  /\ last.newItems = Move(PreItems, 1, 3)
  /\ note.checklistItems[3].id = PreItems[1].id
  /\ note.checklistItems[3].order = 2
  /\ PreItems[1].order # 2

\* C12: the request of an accepted reorder carries archivedAt next to the
\* items: a timestamp when every item of the new sequence is checked, null
\* when some item is unchecked.
C12_ReorderSendsArchivedAt ==
  Called("reorder") =>
    /\ syncDB => LastRequests # {}
    /\ \A r \in LastRequests :
         /\ r.body.hasArchivedAt
         /\ EveryChecked(last.newItems) => r.body.archivedAt = Now
         /\ ~EveryChecked(last.newItems) => r.body.archivedAt = Null

\* two checked items swapped on a note that was not archived
C12_Witness ==
  /\ Called("reorder")
  /\ Len(last.newItems) = 2 /\ EveryChecked(last.newItems)
  /\ last.newItems # PreItems
  /\ Pre.archivedAt = Null
  /\ \E r \in LastRequests : r.body.hasArchivedAt /\ r.body.archivedAt = Now

\* C13: of the five operations only reorder sends archivedAt; the bodies of
\* add, toggle, edit and delete carry checklistItems alone.
C13_OnlyReorderSendsArchivedAt ==
  \A r \in inflight : r.body.hasArchivedAt <=> r.op = "reorder"

\* a toggle that checked the last unchecked item still sends no archivedAt
C13_Witness ==
  /\ Called("toggle")
  /\ Len(note.checklistItems) >= 2 /\ EveryChecked(note.checklistItems)
  /\ ~EveryChecked(PreItems)
  /\ \E r \in LastRequests : ~r.body.hasArchivedAt

\* C14: a request is issued only by a handler call, and one call issues at
\* most one: no step that settles a request issues another one, so the
\* requests sent never outnumber the calls.
C14_OneRequestPerCallNoRetry ==
  /\ [](requests <= nOps)
  /\ [][requests' # requests => (requests' = requests + 1 /\ nOps' = nOps + 1)]_vars

\* the first operation failed; the only request in flight is that of the
\* second call
C14_Witness ==
  /\ Len(done) = 1 /\ done[1].ev \in {"notok", "thrown"} /\ done[1].rid = 1
  /\ nOps = 2 /\ requests = 2 /\ last.ev = "call"
  /\ Cardinality(inflight) = 1 /\ LastRequests = inflight

\* C15: a handler has called onUpdate with the optimistic note by the time
\* its request exists, and the items of the request body are the items of
\* that optimistic note.
C15_RequestCarriesOptimisticItems ==
  /\ requests <= updates
  /\ last.ev = "call" =>
       /\ syncDB => Cardinality(LastRequests) = 1
       /\ \A r \in LastRequests : r.body.checklistItems = note.checklistItems

\* an add on a note of two items: the body holds all three
C15_Witness ==
  /\ Called("add") /\ Len(PreItems) = 2
  /\ \E r \in LastRequests :
       /\ Len(r.body.checklistItems) = 3
       /\ r.body.checklistItems = note.checklistItems
       /\ r.body.checklistItems[3].id = Arg.itemId

\* C16: after a 2xx response the local note is the note of the response and
\* nothing else; after add the item with the locally generated id is gone and
\* the server's item with its server-assigned id is there.
C16_OkReplacesNoteWholesale ==
  last.ev = "ok" =>
    /\ note = last.resp
    /\ last.op = "add" =>
         /\ TempId(last.rid) \notin Ids(note.checklistItems)
         /\ ServerId(TempId(last.rid)) \in Ids(note.checklistItems)

\* an add on an archived note: the optimistic note had cleared archivedAt and
\* held the temporary id, the response note has neither
C16_Witness ==
  /\ last.ev = "ok" /\ last.op = "add"
  /\ Pre.archivedAt = Now /\ note.archivedAt = Now
  /\ note = last.resp
  /\ ServerId(Arg.itemId) \in Ids(note.checklistItems)
  /\ Arg.itemId \notin Ids(note.checklistItems)

\* items holds every item of pre, the one with itemId with checked flipped
\* and nothing else changed, the others as they were
FlippedOnly(items, pre, itemId) ==
  /\ Len(items) = Len(pre)
  /\ \A i \in 1..Len(pre) :
       \E j \in 1..Len(items) :
         /\ items[j].id = pre[i].id
         /\ items[j].content = pre[i].content
         /\ items[j].order = pre[i].order
         /\ items[j].checked = (IF pre[i].id = itemId THEN ~pre[i].checked ELSE pre[i].checked)

\* C17: toggle(itemId) flips checked on the item with that id and changes
\* nothing else of any item nor the number of items, in the optimistic note
\* and the request body; the note of a 2xx response holds the flipped value.
C17_ToggleFlipsExactlyOneItem ==
  /\ Called("toggle") =>
       OptimisticAndBody(LAMBDA items : FlippedOnly(items, PreItems, Arg.itemId))
  /\ \A r \in inflight :
       (r.op = "toggle" /\ r.stage = "ok") =>
         LET id == args[r.rid].itemId
         IN /\ ServerId(id) \in Ids(r.resp.checklistItems)
            /\ ItemWithId(r.resp.checklistItems, ServerId(id)).checked
                 = ~ItemWithId(before[r.rid].checklistItems, id).checked

\* the checked item in the middle of three was unchecked and the server
\* answered 2xx
C17_Witness ==
  /\ Called("toggle") /\ Len(PreItems) = 3
  /\ PreItems[2].id = Arg.itemId /\ PreItems[2].checked
  /\ ~note.checklistItems[2].checked
  /\ \E r \in LastRequests :
       r.stage = "ok" /\ ~ItemWithId(r.resp.checklistItems, Arg.itemId).checked

IdSequence(items) == [i \in 1..Len(items) |-> items[i].id]

\* C18: toggle leaves every item at its position.
C18_ToggleKeepsPositions ==
  Called("toggle") => IdSequence(note.checklistItems) = IdSequence(PreItems)

\* items is pre with the content of the item with itemId replaced
ContentReplacedOnly(items, pre, itemId, content) ==
  /\ Len(items) = Len(pre)
  /\ \A i \in 1..Len(pre) :
       /\ items[i].id = pre[i].id
       /\ items[i].checked = pre[i].checked
       /\ items[i].order = pre[i].order
       /\ items[i].content = (IF pre[i].id = itemId THEN content ELSE pre[i].content)

\* C19: edit(itemId, content) replaces the content of the item with that id;
\* the item's other fields, the other items, the sequence and archivedAt stay
\* as they were; the note of a 2xx response holds the new content.
C19_EditReplacesContentOnly ==
  /\ Called("edit") =>
       /\ note.archivedAt = Pre.archivedAt
       /\ OptimisticAndBody(
            LAMBDA items : ContentReplacedOnly(items, PreItems, Arg.itemId, Arg.content))
  /\ \A r \in inflight :
       (r.op = "edit" /\ r.stage = "ok") =>
         LET id == args[r.rid].itemId
         IN /\ ServerId(id) \in Ids(r.resp.checklistItems)
            /\ ItemWithId(r.resp.checklistItems, ServerId(id)).content = args[r.rid].content

\* the checked second item of an archived note of three was edited and the
\* server answered 2xx
C19_Witness ==
  /\ Called("edit") /\ Len(PreItems) = 3 /\ Pre.archivedAt = Now
  /\ PreItems[2].id = Arg.itemId /\ PreItems[2].checked /\ PreItems[2].content = "x"
  /\ note.checklistItems[2].content = "y" /\ note.checklistItems[2].checked
  /\ note.checklistItems[1].content = "x"
  /\ \E r \in LastRequests :
       r.stage = "ok" /\ ItemWithId(r.resp.checklistItems, Arg.itemId).content = "y"

\* items is pre without the item with itemId, the rest untouched and in place
RemovedOnly(items, pre, itemId) ==
  \E k \in 1..Len(pre) :
    /\ pre[k].id = itemId
    /\ items = SubSeq(pre, 1, k - 1) \o SubSeq(pre, k + 1, Len(pre))

\* C20: delete(itemId) removes the item with that id and nothing else: the
\* remaining items keep id, content, checked and order (no renumbering) and
\* their relative sequence.
C20_DeleteRemovesExactlyOneItem ==
  Called("delete") =>
    OptimisticAndBody(LAMBDA items : RemovedOnly(items, PreItems, Arg.itemId))

\* the first of three items was deleted: the two left keep order 1 and 2
C20_Witness ==
  /\ Called("delete") /\ Len(PreItems) = 3 /\ Dense(PreItems)
  /\ PreItems[1].id = Arg.itemId
  /\ Len(note.checklistItems) = 2
  /\ note.checklistItems[1].order = 1 /\ note.checklistItems[2].order = 2
  /\ LastRequests # {}

\* items is pre followed by one new unchecked item with the given content
\* and the number of items of pre as its order
AppendedOnly(items, pre, content) ==
  /\ Len(items) = Len(pre) + 1
  /\ SubSeq(items, 1, Len(pre)) = pre
  /\ items[Len(items)].content = content
  /\ items[Len(items)].checked = FALSE
  /\ items[Len(items)].order = Len(pre)
  /\ items[Len(items)].id \notin Ids(pre)

\* C21: add(content) appends one new item at the end, with the given
\* content, unchecked and with order = number of items before the call; the
\* existing items are unchanged and keep their positions.
C21_AddAppendsOneItem ==
  Called("add") =>
    OptimisticAndBody(LAMBDA items : AppendedOnly(items, PreItems, Arg.content))

\* an add to a note of two items whose order values start at 2
C21_Witness ==
  /\ Called("add") /\ Len(PreItems) = 2 /\ PreItems[1].order = 2
  /\ Len(note.checklistItems) = 3 /\ note.checklistItems[3].order = 2
  /\ LastRequests # {}

\* C22: the optimistic note of add has archivedAt set iff all its items, the
\* new one included, are checked; the new item is unchecked, so archivedAt is
\* null, also when the note was archived before the call.
C22_AddClearsArchivedAt ==
  Called("add") =>
    /\ (note.archivedAt # Null) <=> EveryChecked(note.checklistItems)
    /\ note.archivedAt = Null

\* an add to an archived note all of whose items are checked
C22_Witness ==
  /\ Called("add") /\ Pre.archivedAt = Now
  /\ Len(PreItems) = 2 /\ EveryChecked(PreItems)
  /\ note.archivedAt = Null

InFlightIds(reqs) == {r.rid : r \in reqs}

\* the step is a handler call
IsCall == nOps' = nOps + 1

\* the step is the resolution of the request rid
Resolves(rid) == Len(done') = Len(done) + 1 /\ done'[Len(done')].rid = rid

\* C30: there is no timeout, retry or cancellation: the local note changes
\* only by a handler call or by the resolution of a request, a request is
\* sent only by a handler call, and a request stops being in flight only by
\* its own resolution; until then the optimistic note stays.
C30_NoTimeoutNoCancel ==
  [][/\ note' # note => (IsCall \/ \E r \in inflight : Resolves(r.rid))
     /\ requests' # requests => IsCall
     /\ \A r \in inflight : r.rid \notin InFlightIds(inflight') => Resolves(r.rid)]_vars

\* the server has left a delete unanswered, a later request was answered and
\* received, and the deleted item is still gone
C30_Witness ==
  /\ \E r \in inflight : r.op = "delete" /\ r.stage = "sent" /\ r.rid = 1
  /\ last.ev = "ok" /\ last.rid = 2
  /\ args[1].itemId \notin Ids(note.checklistItems)

\* ---- the editing interface: what an event did ----------------------------
\* the step made exactly one handler call, of op
Calls(op) == nOps' = nOps + 1 /\ last'.ev = "call" /\ last'.op = op

\* the step made no handler call, sent nothing and left the note alone
CallsNothing == nOps' = nOps /\ requests' = requests /\ note' = note

\* the step is the event of one of the given types on the element e
EventOn(types, e) == ui'.ev.type \in types /\ ui'.ev.el = e

\* the step ran handleBlur of an item that was in Editing
BlurOfEditedItem == ui'.ev.blurred.el = "item" /\ ui'.ev.isEditing

\* C23: Backspace on an item in Editing whose draft is blank calls delete for
\* that item, once, calls no edit and ends the editing session; an edit is
\* only ever called for the item that is in Editing.
C23_BackspaceOnBlankDraftDeletes ==
  [][/\ (ui'.ev.type = "backspace" /\ ui'.ev.el.el = "item") =>
          /\ ui'.ev.isEditing /\ Trim(ui'.ev.editContent) = ""
          /\ Calls("delete")
          /\ args'[nOps'].itemId = ui'.ev.el.id
          /\ requests' <= requests + 1
          /\ ui'.editingItem = NoId
     /\ Calls("edit") => ui.editingItem = args'[nOps'].itemId]_vars

\* Backspace on a draft of one blank removed the item and sent the request
C23_Witness ==
  /\ ui.ev.type = "backspace" /\ ui.ev.el.el = "item" /\ ui.ev.editContent = " "
  /\ Called("delete") /\ Arg.itemId = ui.ev.el.id
  /\ Arg.itemId \notin Ids(note.checklistItems)
  /\ LastRequests # {} /\ ui.editingItem = NoId

\* C24: no request carries an item whose content is blank.
C24_NoBlankContentSent ==
  \A r \in inflight :
    \A i \in 1..Len(r.body.checklistItems) : Trim(r.body.checklistItems[i].content) # ""

\* C25: Escape on an item in Editing calls nothing, leaves the note as it is
\* and ends the session with the draft dropped; the blur of an item that is
\* not in Editing calls nothing.
C25_EscapeDiscardsDraft ==
  [][/\ (ui'.ev.type = "escape" /\ ui'.ev.el.el = "item" /\ ui'.ev.isEditing) =>
          /\ CallsNothing
          /\ ui'.editingItem = NoId /\ ui'.editingItemContent = ""
     /\ (ui'.ev.blurred.el = "item" /\ ~ui'.ev.isEditing) => CallsNothing]_vars

\* Escape on a draft that differs from the item's content: the content stays
C25_Witness ==
  /\ ui.ev.type = "escape" /\ ui.ev.el.el = "item" /\ ui.ev.isEditing
  /\ ui.ev.editContent = " y"
  /\ ItemWithId(note.checklistItems, ui.ev.el.id).content = "x"
  /\ ui.editingItem = NoId /\ nOps = 0 /\ ui.focus = ui.ev.el

\* the blur committed the draft: one edit call with the draft, session over,
\* as many items as before
CommitsDraft ==
  /\ Calls("edit")
  /\ args'[nOps'] = Args(ui'.ev.blurred.id, ui'.ev.editContent)
  /\ requests' <= requests + 1
  /\ ui'.editingItem = NoId
  /\ Len(note'.checklistItems) = Len(note.checklistItems)

C27_NewItemAddsTrimmedDraft ==
  [][/\ nOps' # nOps =>
          /\ Calls("add")
          /\ EventOn({"enter", "blur"}, NewItemElement)
          /\ Trim(ui'.ev.editContent) # ""
          /\ args'[nOps'].content = Trim(ui'.ev.editContent)
          /\ ui'.newItemContent = ""
     /\ (EventOn({"enter", "blur"}, NewItemElement) /\ Trim(ui'.ev.editContent) # "") =>
          Calls("add")
     /\ (EventOn({"enter", "blur"}, NewItemElement) /\ Trim(ui'.ev.editContent) = "") =>
          CallsNothing]_vars

\* Enter on the draft " y" added an item "y" and cleared the draft
C27_Witness ==
  /\ ui.ev.type = "enter" /\ ui.ev.el = NewItemElement /\ ui.ev.editContent = " y"
  /\ Called("add") /\ Arg.content = "y"
  /\ note.checklistItems[Len(note.checklistItems)].content = "y"
  /\ ui.newItemContent = "" /\ LastRequests # {}

\* C28: Enter or blur on the additional input after text that is not blank
\* was typed into it calls add with that text, trimmed.
C28_AdditionalInputAdds ==
  [][(EventOn({"enter", "blur"}, AdditionalElement) /\ Trim(ui'.ev.typed) # "") =>
       (Calls("add") /\ args'[nOps'].content = Trim(ui'.ev.typed))]_vars

DistinctOrders(items) ==
  \A i, j \in 1..Len(items) : i # j => items[i].order # items[j].order

\* C34: no two items of the note share an order value, in the local note and
\* in every request body (the initial note has distinct order values).
C34_OrdersDistinct ==
  /\ DistinctOrders(note.checklistItems)
  /\ \A r \in inflight : DistinctOrders(r.body.checklistItems)

\* the local note is the optimistic note of the last call
OptimisticApplied ==
  CASE last.op = "toggle" -> FlippedOnly(note.checklistItems, PreItems, Arg.itemId)
    [] last.op = "edit" ->
         ContentReplacedOnly(note.checklistItems, PreItems, Arg.itemId, Arg.content)
    [] last.op = "delete" -> RemovedOnly(note.checklistItems, PreItems, Arg.itemId)
    [] last.op = "add" -> AppendedOnly(note.checklistItems, PreItems, Arg.content)
    [] last.op = "reorder" -> SubmittedSequence(note.checklistItems, last.newItems)
    [] OTHER -> FALSE

\* C38: with syncDB = false no request is ever sent, nothing is rolled back
\* or replaced by a response, and every call that did not return early has
\* put its optimistic note in place.
C38_NoSyncNoRequest ==
  ~syncDB =>
    /\ requests = 0 /\ inflight = {} /\ done = <<>>
    /\ last.ev \in {"init", "call", "returned"}
    /\ last.ev = "call" => OptimisticApplied

\* two calls without syncDB, both applied: an add, then an edit of the new item
C38_Witness ==
  /\ ~syncDB /\ nOps = 2 /\ updates = 2
  /\ Called("edit") /\ Arg.itemId = TempId(1)
  /\ note.checklistItems[Len(note.checklistItems)].content = Arg.content

\* C39: a reorder with the empty sequence on a note whose checklist is the
\* empty array sends archivedAt null, or sends nothing.
C39_EmptyReorderSendsNull ==
  (Called("reorder") /\ Pre.defined /\ PreItems = <<>> /\ last.newItems = <<>>) =>
    \A r \in LastRequests : r.body.hasArchivedAt => r.body.archivedAt = Null

\* the items that are in Editing
EditingItems == {id \in Ids(note.checklistItems) : isEditing(ui, ItemElement(id))}

\* C32: an item enters Editing only by a focus on it, when the user can edit
\* the note and the item is in the note, and the draft then is the item's
\* content; such a focus does enter Editing; at most one item is in Editing.
C32_EditingEnteredByFocus ==
  /\ [](Cardinality(EditingItems) <= 1)
  /\ [][/\ (ui'.editingItem # NoId /\ ui'.editingItem # ui.editingItem) =>
             /\ ui'.ev.type = "focus" /\ ui'.ev.el = ItemElement(ui'.editingItem)
             /\ ~ui.readonly /\ ui.owner
             /\ ui'.editingItem \in Ids(note.checklistItems)
             /\ ui'.editingItemContent
                  = ItemWithId(note.checklistItems, ui'.editingItem).content
        /\ (ui'.ev.type = "focus" /\ ui'.ev.el.el = "item" /\ ~ui.readonly /\ ui.owner) =>
             ui'.editingItem = ui'.ev.el.id]_vars

\* the second item, whose content an edit has changed, is focused again: the
\* draft is the new content
C32_Witness ==
  /\ ui.ev.type = "focus" /\ ui.ev.el = ItemElement(InitId(2))
  /\ ui.editingItem = InitId(2) /\ ui.editingItemContent = " y"
  /\ nOps = 1 /\ Len(note.checklistItems) = 2

\* C36: the blur of an item in Editing that the user causes by leaving the
\* textarea or by Enter (not by pressing the item's delete button) commits
\* the draft.
C36_FlagNeverSwallowsLaterBlur ==
  [][(BlurOfEditedItem /\ ui'.ev.type \in {"blur", "enter"}) => CommitsDraft]_vars

\* C37: the Enter or blur that commits the new-item draft clears it, only
\* typing makes it non-empty again, and Enter or blur on the empty draft
\* calls nothing: one typed draft is added once.
C37_DraftAddedOnce ==
  [][/\ (EventOn({"enter", "blur"}, NewItemElement) /\ nOps' # nOps) =>
          ui'.newItemContent = ""
     /\ (ui.newItemContent = "" /\ ui'.newItemContent # "") => ui'.ev.type = "type"
     /\ (EventOn({"enter", "blur"}, NewItemElement) /\ ui.newItemContent = "") =>
          CallsNothing]_vars

\* the blur that follows the committing Enter: still one add, one request
C37_Witness ==
  /\ ui.ev.type = "blur" /\ ui.ev.el = NewItemElement /\ ui.ev.editContent = ""
  /\ Called("add") /\ nOps = 1 /\ requests = 1
  /\ Len(note.checklistItems) = Len(PreItems) + 1

\* C33: for a user who cannot edit the note, nothing was called, no onUpdate
\* was made and no request was issued.
C33_ViewerCausesNothing ==
  ~canEdit(ui) => (nOps = 0 /\ updates = 0 /\ requests = 0 /\ inflight = {})

\* C35: the editing pointer is null or the id of an item of the note.
C35_EditingPointerInNote ==
  ui.editingItem = NoId \/ ui.editingItem \in Ids(note.checklistItems)

====
